---- MODULE Spec2Model ----
(***************************************************************************)
(* A state-machine model of the command handlers of readalongs/cli.py:     *)
(* `align` (one or two runs sharing one output directory), `prepare` and   *)
(* `tokenize`.                                                             *)
(*                                                                         *)
(* File names are sequences of segments: "story.xml" is <<"story",".xml">>,*)
(* so that os.path.splitext, str.endswith, slicing off a suffix and        *)
(* appending a suffix are computed, not assumed.  An output directory path *)
(* is the sequence of its components; a trailing separator ("out/") shows  *)
(* as a last empty component, as os.path.basename sees it.                 *)
(***************************************************************************)
EXTENDS Integers, Sequences, FiniteSets, TLC

VARIABLES
    kwargs,     \* per run: the click arguments of align (textfile excepted)
    textfile,   \* per run: kwargs["textfile"], reassigned by create_input_tei
    config,     \* per run: the local `config` of align
    pc,         \* per run: position in align
    exit,       \* per run: "running", "ok" (status 0) or the fatal error
    log,        \* per run: the stages executed so far, in order
    checked,    \* per run: names on which an output-file existence check ran
    written,    \* per run: <<artifact, name>> pairs the run wrote in the dir
    created,    \* per run: directories the run created ("output_dir", "tempfiles")
    removed,    \* per run: names the run unlinked
    paths,      \* per run: tokenized_xml_path, smil_path, audio_path
    refs,       \* per run: the names handed to index page, web bundle, smil
    configErr,  \* per run: a JSONDecodeError was logged
    target,     \* what is at output_dir: "absent", "file" or "dir"
    fs,         \* the entries of output_dir, by name
    target0,    \* target at the start
    fs0,        \* fs at the start
    writable,   \* the process may create entries at/in output_dir
    cmd,        \* prepare/tokenize: the command line
    cpc,        \* prepare/tokenize: position
    out_file,   \* prepare/tokenize: out_file / output_tok_path
    cfs,        \* prepare/tokenize: files that exist, name -> "old" | "new"
    cfs0,       \* cfs at the start
    cexit,      \* prepare/tokenize: "running", "ok" or the error
    cstdout     \* prepare/tokenize: something was written to stdout

alignvars == <<kwargs, textfile, config, pc, exit, log, checked, written, created,
               removed, paths, refs, configErr, target, fs, target0, fs0, writable>>
cmdvars == <<cmd, cpc, out_file, cfs, cfs0, cexit, cstdout>>
vars == <<alignvars, cmdvars>>

(***************************************************************************)
(* Bounds and input sets                                                   *)
(***************************************************************************)
\* at most this many entries pre-exist in an output directory that is not
\* fully populated by a previous run
MaxPre == 1

Runs == {1, 2}

\* output_base as typed: a directory, and one given with a trailing separator
OutputDirs == {<<"work", "out">>, <<"work", "out", "">>}

TextExts == {".xml", ".txt"}
AudioExts == {".wav", ".mp3"}
TextFiles == {<<"story", e>> : e \in TextExts}
AudioFiles == {<<"story", e>> : e \in AudioExts}
\* the text and audio given together on one command line
InputPairs == {<<<<"story", ".xml">>, <<"story", ".wav">>>>,
               <<<<"story", ".txt">>, <<"story", ".mp3">>>>}

\* --config: not given; a .json file that parses; a .json file that does not;
\* a file whose name does not end in "json"
NoConfig == <<>>
ConfigArgs == {NoConfig, <<"valid", ".json">>, <<"malformed", ".json">>,
               <<"settings", ".yaml">>}

(***************************************************************************)
(* Path functions                                                          *)
(***************************************************************************)
Last(s) == s[Len(s)]

\* os.path.basename of a directory path
Basename(dir) == Last(dir)

\* the name the directory itself carries
OwnName(dir) == IF Last(dir) = "" THEN dir[Len(dir) - 1] ELSE Last(dir)

IsExt(seg) == seg \in TextExts \cup AudioExts

\* os.path.splitext(name)[1]
SplitExt(name) == IF Len(name) > 1 /\ IsExt(Last(name)) THEN Last(name) ELSE ""

\* base + suffix (string concatenation)
Cat(base, suffix) == IF suffix = "" THEN base ELSE Append(base, suffix)

IndexName == <<"index", ".html">>
TempName == <<"tempfiles">>

FixedSuffixes == {".xhtml", ".smil", ".TextGrid", ".eaf", "_sentences.vtt",
                  "_sentences.srt", "_words.vtt", "_words.srt", ".html"}
Suffixes == FixedSuffixes \cup TextExts \cup AudioExts

\* the names an entry of the output directory `dir` can have
DirNames(dir) ==
    {IndexName, TempName}
    \cup {Cat(<<b>>, s) : b \in {Basename(dir), OwnName(dir)}, s \in Suffixes}

None == [kind |-> "none", by |-> 0, what |-> "none"]
Old(kind) == [kind |-> kind, by |-> 0, what |-> "old"]

Exists(f, n) == f[n].kind # "none"
IsDir(f, n) == f[n].kind = "dir"

\* what open(name, "w"), shutil.copy and the save_* helpers do to one name:
\* they fail on a directory, and create or truncate a file otherwise
CanWrite(f, n) == ~IsDir(f, n)
WriteFile(f, n, r, what) == [f EXCEPT ![n] = [kind |-> "file", by |-> r, what |-> what]]

\* defect: a write that raises is swallowed and the following writes go on
RECURSIVE WriteSeqSwallow(_, _, _)
WriteSeqSwallow(f, r, items) ==
    IF items = <<>> THEN [fs |-> f, wrote |-> {}, ok |-> TRUE]
    ELSE LET it == Head(items) IN
         IF ~CanWrite(f, it[2]) THEN WriteSeqSwallow(f, r, Tail(items))
         ELSE LET rest == WriteSeqSwallow(WriteFile(f, it[2], r, it[1]), r, Tail(items)) IN
              [fs |-> rest.fs, wrote |-> {it} \cup rest.wrote, ok |-> TRUE]

\* a run of writes in program order, stopping at the first one that raises
RECURSIVE WriteSeq(_, _, _)
WriteSeq(f, r, items) ==
    IF items = <<>> THEN [fs |-> f, wrote |-> {}, ok |-> TRUE]
    ELSE LET it == Head(items) IN
         IF ~CanWrite(f, it[2]) THEN [fs |-> f, wrote |-> {}, ok |-> FALSE]
         ELSE LET rest == WriteSeq(WriteFile(f, it[2], r, it[1]), r, Tail(items)) IN
              [fs |-> rest.fs, wrote |-> {it} \cup rest.wrote, ok |-> rest.ok]

(***************************************************************************)
(* Initial states                                                          *)
(***************************************************************************)
Kwargs ==
    [config : ConfigArgs, force_overwrite : BOOLEAN, save_temps : BOOLEAN,
     text_input : BOOLEAN, output_xhtml : BOOLEAN, text_grid : BOOLEAN,
     closed_captioning : BOOLEAN, html : BOOLEAN, audiofile : AudioFiles,
     output_base : OutputDirs]

\* entries a directory may hold before the run, besides a whole earlier bundle
PreEntries(dir) ==
    {<<TempName, "file">>, <<TempName, "dir">>,
     <<Cat(<<Basename(dir)>>, ".smil"), "dir">>}

EmptyDir(dir) == [n \in DirNames(dir) |-> None]

Populate(dir, S) ==
    [n \in DirNames(dir) |->
        IF \E e \in S : e[1] = n
        THEN Old((CHOOSE e \in S : e[1] = n)[2]) ELSE None]

\* the bundle an earlier run left: every artifact name, no tempfiles
FullBundle(dir) ==
    [n \in DirNames(dir) |->
        IF n = IndexName \/ \E s \in Suffixes : n = Cat(<<Basename(dir)>>, s)
        THEN Old("file") ELSE None]

DirContents(dir) ==
    {Populate(dir, S) : S \in {T \in SUBSET PreEntries(dir) :
                                /\ Cardinality(T) <= MaxPre
                                /\ \A x, y \in T : x[1] = y[1] => x = y}}
    \cup {FullBundle(dir)}

NoPaths == [tokenized |-> <<>>, smil |-> <<>>, audio |-> <<>>]
NoRefs == [index |-> <<>>, html |-> <<>>, smil |-> <<>>]

InitCmdIdle ==
    /\ cmd = [name |-> "none"]
    /\ cpc = "off"
    /\ out_file = <<>>
    /\ cfs = {}
    /\ cfs0 = {}
    /\ cexit = "running"
    /\ cstdout = FALSE

InitRuns(active) ==
    /\ pc = [r \in Runs |-> IF r \in active THEN "config" ELSE "off"]
    /\ config = [r \in Runs |-> kwargs[r].config]
    /\ exit = [r \in Runs |-> "running"]
    /\ log = [r \in Runs |-> <<>>]
    /\ checked = [r \in Runs |-> {}]
    /\ written = [r \in Runs |-> {}]
    /\ created = [r \in Runs |-> {}]
    /\ removed = [r \in Runs |-> {}]
    /\ paths = [r \in Runs |-> NoPaths]
    /\ refs = [r \in Runs |-> NoRefs]
    /\ configErr = [r \in Runs |-> FALSE]

\* one align run, on any directory state
Init ==
    /\ \E k \in Kwargs : kwargs = [r \in Runs |-> k]
    /\ \E t \in TextFiles : textfile = [r \in Runs |-> t]
    /\ <<textfile[1], kwargs[1].audiofile>> \in InputPairs
    /\ target0 \in {"absent", "file", "dir"}
    /\ writable \in BOOLEAN
    /\ fs0 \in DirContents(kwargs[1].output_base)
    /\ target0 # "dir" => fs0 = EmptyDir(kwargs[1].output_base)
    \* what an unwritable place holds makes no difference to the run
    /\ ~writable => target0 # "file" /\ fs0 = EmptyDir(kwargs[1].output_base)
    /\ target = target0
    /\ fs = fs0
    /\ InitRuns({1})
    /\ InitCmdIdle

(***************************************************************************)
(* align                                                                   *)
(***************************************************************************)
Goto(r, label, next) ==
    /\ pc' = [pc EXCEPT ![r] = next]
    /\ log' = [log EXCEPT ![r] = Append(@, label)]
    /\ exit' = exit

Fail(r, label, err) ==
    /\ pc' = [pc EXCEPT ![r] = "done"]
    /\ log' = [log EXCEPT ![r] = Append(@, label)]
    /\ exit' = [exit EXCEPT ![r] = err]

\* config.endswith("json")
EndsWithJson(c) == Last(c) = ".json"
\* json.load succeeds on the file
ParsesAsJson(c) == c[1] = "valid"

LoadConfig(r) ==
    /\ pc[r] = "config"
    /\ IF config[r] = NoConfig
       THEN /\ Goto(r, "config", "dircheck")
            /\ UNCHANGED <<config, configErr>>
       ELSE IF EndsWithJson(config[r])
       THEN IF ParsesAsJson(config[r])
            THEN /\ config' = [config EXCEPT ![r] = <<"loaded">>]
                 /\ Goto(r, "config", "dircheck")
                 /\ UNCHANGED configErr
            ELSE \* JSONDecodeError: logged, and the run goes on
                 /\ configErr' = [configErr EXCEPT ![r] = TRUE]
                 /\ Goto(r, "config", "dircheck")
                 /\ UNCHANGED config
       ELSE /\ Fail(r, "config", "ConfigError")
            /\ UNCHANGED <<config, configErr>>
    /\ UNCHANGED <<kwargs, textfile, checked, written, created, removed, paths, refs,
                   target, fs, target0, fs0, writable, cmdvars>>

\* defect: an existing directory is accepted without looking at force_overwrite
DirCheckNoForceTest(r) ==
    /\ pc[r] = "dircheck"
    /\ IF target # "absent"
       THEN IF target # "dir"
            THEN Fail(r, "dircheck", "PathConflict")
            ELSE Goto(r, "dircheck", "probe")
       ELSE Goto(r, "dircheck", "mkdir")
    /\ UNCHANGED <<kwargs, textfile, config, checked, written, created, removed, paths,
                   refs, configErr, target, fs, target0, fs0, writable, cmdvars>>

DirCheck(r) ==
    /\ pc[r] = "dircheck"
    /\ IF target # "absent"
       THEN IF target # "dir" \/ ~kwargs[r].force_overwrite
            THEN Fail(r, "dircheck", "PathConflict")
            ELSE Goto(r, "dircheck", "probe")
       ELSE Goto(r, "dircheck", "mkdir")
    /\ UNCHANGED <<kwargs, textfile, config, checked, written, created, removed, paths,
                   refs, configErr, target, fs, target0, fs0, writable, cmdvars>>

\* defect: the directory is made as by os.makedirs(output_dir, exist_ok=True)
MkDirExistOk(r) ==
    /\ pc[r] = "mkdir"
    /\ IF target # "file" /\ writable
       THEN /\ target' = "dir"
            /\ created' = [created EXCEPT ![r] =
                             IF target = "absent" THEN @ \cup {"output_dir"} ELSE @]
            /\ Goto(r, "mkdir", "probe")
       ELSE /\ Fail(r, "mkdir", "OSError")
            /\ UNCHANGED <<target, created>>
    /\ UNCHANGED <<kwargs, textfile, config, checked, written, removed, paths, refs,
                   configErr, fs, target0, fs0, writable, cmdvars>>

\* os.mkdir(output_dir): raises when the path exists or cannot be created
MkDir(r) ==
    /\ pc[r] = "mkdir"
    /\ IF target = "absent" /\ writable
       THEN /\ target' = "dir"
            /\ created' = [created EXCEPT ![r] = @ \cup {"output_dir"}]
            /\ Goto(r, "mkdir", "probe")
       ELSE /\ Fail(r, "mkdir", "OSError")
            /\ UNCHANGED <<target, created>>
    /\ UNCHANGED <<kwargs, textfile, config, checked, written, removed, paths, refs,
                   configErr, fs, target0, fs0, writable, cmdvars>>

\* with TemporaryFile(dir=output_dir): the file is gone when the block ends
Probe(r) ==
    /\ pc[r] = "probe"
    /\ IF target = "dir" /\ writable
       THEN Goto(r, "probe", "temp")
       ELSE Fail(r, "probe", "PermissionError")
    /\ UNCHANGED <<kwargs, textfile, config, checked, written, created, removed, paths,
                   refs, configErr, target, fs, target0, fs0, writable, cmdvars>>

\* defect: a file in the way of tempfiles is not unlinked before os.mkdir
TempDirNoUnlink(r) ==
    /\ pc[r] = "temp"
    /\ IF kwargs[r].save_temps /\ ~IsDir(fs, TempName)
       THEN IF Exists(fs, TempName)
            THEN /\ Fail(r, "temp", "OSError")
                 /\ UNCHANGED <<fs, created, removed>>
            ELSE /\ fs' = [fs EXCEPT ![TempName] =
                             [kind |-> "dir", by |-> r, what |-> "tempfiles"]]
                 /\ created' = [created EXCEPT ![r] = @ \cup {"tempfiles"}]
                 /\ Goto(r, "temp", "norm")
                 /\ UNCHANGED removed
       ELSE /\ Goto(r, "temp", "norm")
            /\ UNCHANGED <<fs, created, removed>>
    /\ UNCHANGED <<kwargs, textfile, config, checked, written, paths, refs, configErr,
                   target, target0, fs0, writable, cmdvars>>

TempDir(r) ==
    /\ pc[r] = "temp"
    /\ IF kwargs[r].save_temps /\ ~IsDir(fs, TempName)
       THEN LET unlink == Exists(fs, TempName) /\ kwargs[r].force_overwrite
                f1 == IF unlink THEN [fs EXCEPT ![TempName] = None] ELSE fs
            IN  /\ removed' = [removed EXCEPT ![r] =
                                 IF unlink THEN @ \cup {TempName} ELSE @]
                /\ IF Exists(f1, TempName)
                   THEN /\ fs' = f1
                        /\ Fail(r, "temp", "OSError")
                        /\ UNCHANGED created
                   ELSE /\ fs' = [f1 EXCEPT ![TempName] =
                                    [kind |-> "dir", by |-> r, what |-> "tempfiles"]]
                        /\ created' = [created EXCEPT ![r] = @ \cup {"tempfiles"}]
                        /\ Goto(r, "temp", "norm")
       ELSE /\ Goto(r, "temp", "norm")
            /\ UNCHANGED <<fs, created, removed>>
    /\ UNCHANGED <<kwargs, textfile, config, checked, written, paths, refs, configErr,
                   target, target0, fs0, writable, cmdvars>>

\* defect: the base name is taken after stripping a trailing separator
OutputBaseStripped(r) == <<OwnName(kwargs[r].output_base)>>

\* output_basename = os.path.basename(output_dir); output_base joins it to the
\* directory, so inside the directory an artifact is named output_basename + suffix
OutputBase(r) == <<Basename(kwargs[r].output_base)>>

\* create_input_tei: raises on input it cannot read, or returns the name of the
\* XML file it wrote (outside the output directory, or under tempfiles/)
Normalize(r) ==
    /\ pc[r] = "norm"
    /\ IF kwargs[r].text_input
       THEN \/ /\ Fail(r, "norm", "MalformedInputError")
               /\ UNCHANGED textfile
            \/ \E e \in TextExts :
                  /\ textfile' = [textfile EXCEPT ![r] = <<"input", e>>]
                  /\ Goto(r, "norm", "chk_tok")
       ELSE /\ Goto(r, "skipnorm", "chk_tok")
            /\ UNCHANGED textfile
    /\ UNCHANGED <<kwargs, config, checked, written, created, removed, paths, refs,
                   configErr, target, fs, target0, fs0, writable, cmdvars>>

TokenizedXmlPath(r) ==
    IF kwargs[r].output_xhtml
    THEN Cat(OutputBase(r), ".xhtml")
    ELSE Cat(OutputBase(r), SplitExt(textfile[r]))

SmilPath(r) == Cat(OutputBase(r), ".smil")

AudioPath(r) == Cat(OutputBase(r), SplitExt(kwargs[r].audiofile))

\* if os.path.exists(path) and not force_overwrite: raise click.BadParameter
CheckPath(r, label, field, path, next) ==
    /\ paths' = [paths EXCEPT ![r][field] = path]
    /\ checked' = [checked EXCEPT ![r] = @ \cup {path}]
    /\ IF target = "dir" /\ Exists(fs, path) /\ ~kwargs[r].force_overwrite
       THEN Fail(r, label, "PathConflict")
       ELSE Goto(r, label, next)
    /\ UNCHANGED <<kwargs, textfile, config, written, created, removed, refs,
                   configErr, target, fs, target0, fs0, writable, cmdvars>>

CheckTokenized(r) ==
    /\ pc[r] = "chk_tok"
    /\ CheckPath(r, "chk_tok", "tokenized", TokenizedXmlPath(r), "chk_smil")

\* defect: smil_path is computed but its existence is not checked
CheckSmilSkipped(r) ==
    /\ pc[r] = "chk_smil"
    /\ paths' = [paths EXCEPT ![r].smil = SmilPath(r)]
    /\ Goto(r, "chk_smil", "chk_audio")
    /\ UNCHANGED <<kwargs, textfile, config, checked, written, created, removed, refs,
                   configErr, target, fs, target0, fs0, writable, cmdvars>>

CheckSmil(r) ==
    /\ pc[r] = "chk_smil"
    /\ CheckPath(r, "chk_smil", "smil", SmilPath(r), "chk_audio")

CheckAudio(r) ==
    /\ pc[r] = "chk_audio"
    /\ CheckPath(r, "chk_audio", "audio", AudioPath(r), "align")

\* defect: the RuntimeError is logged and the run goes on to the exporters
AlignAudioContinue(r) ==
    /\ pc[r] = "align"
    /\ \/ Goto(r, "align", "textgrid")
       \/ Goto(r, "align_error", "textgrid")
    /\ UNCHANGED <<kwargs, textfile, config, checked, written, created, removed, paths,
                   refs, configErr, target, fs, target0, fs0, writable, cmdvars>>

\* align_audio returns the results or raises RuntimeError, which exits with 1
AlignAudio(r) ==
    /\ pc[r] = "align"
    /\ \/ Goto(r, "align", "textgrid")
       \/ Fail(r, "align_error", "AlignmentError")
    /\ UNCHANGED <<kwargs, textfile, config, checked, written, created, removed, paths,
                   refs, configErr, target, fs, target0, fs0, writable, cmdvars>>

\* an export step: the renderer called for it (read_audio_from_file,
\* write_to_text_grid, write_to_subtitles, create_web_component_html, make_smil,
\* ...) may raise before anything is written; otherwise the writes of `items`
\* happen in order. An exception ends the run.
Export(r, label, items, next) ==
    /\ \/ /\ items # <<>>
          /\ Fail(r, label, "ExportError")
          /\ UNCHANGED <<fs, written>>
       \/ LET w == WriteSeq(fs, r, items) IN
            /\ fs' = w.fs
            /\ written' = [written EXCEPT ![r] = @ \cup w.wrote]
            /\ IF w.ok THEN Goto(r, label, next)
               ELSE Fail(r, label, "OSError")
    /\ UNCHANGED <<kwargs, textfile, config, checked, created, removed, paths,
                   configErr, target, target0, fs0, writable, cmdvars>>

ExportTextGrid(r) ==
    /\ pc[r] = "textgrid"
    /\ Export(r, "textgrid",
              IF kwargs[r].text_grid
              THEN <<<<"TextGrid", Cat(OutputBase(r), ".TextGrid")>>,
                     <<"eaf", Cat(OutputBase(r), ".eaf")>>>>
              ELSE <<>>,
              "captions")
    /\ UNCHANGED refs

ExportCaptions(r) ==
    /\ pc[r] = "captions"
    /\ Export(r, "captions",
              IF kwargs[r].closed_captioning
              THEN <<<<"sentences.vtt", Cat(OutputBase(r), "_sentences.vtt")>>,
                     <<"sentences.srt", Cat(OutputBase(r), "_sentences.srt")>>,
                     <<"words.vtt", Cat(OutputBase(r), "_words.vtt")>>,
                     <<"words.srt", Cat(OutputBase(r), "_words.srt")>>>>
              ELSE <<>>,
              "html")
    /\ UNCHANGED refs

\* convert_to_xhtml (lines 249-250) changes the tokenized tree in memory only.
\* create_web_component_html(tokenized_xml_path, smil_path, audio_path), then
\* the page is written to output_base + ".html"
ExportHtml(r) ==
    /\ pc[r] = "html"
    /\ Export(r, "html",
              IF kwargs[r].html
              THEN <<<<"html", Cat(OutputBase(r), ".html")>>>>
              ELSE <<>>,
              "index")
    /\ refs' = [refs EXCEPT ![r].html =
                  IF kwargs[r].html
                  THEN <<paths[r].tokenized, paths[r].smil, paths[r].audio>>
                  ELSE @]

\* defect: the index page is given a tokenized-text name rebuilt from the
\* base and ".xml" instead of the one the path checks computed
SaveIndexRecomputed(r) ==
    /\ pc[r] = "index"
    /\ Export(r, "index", <<<<"index", IndexName>>>>, "save_xml")
    /\ refs' = [refs EXCEPT ![r].index =
                  <<Cat(OutputBase(r), ".xml"), paths[r].smil, paths[r].audio>>]

SaveIndex(r) ==
    /\ pc[r] = "index"
    /\ Export(r, "index", <<<<"index", IndexName>>>>, "save_xml")
    /\ refs' = [refs EXCEPT ![r].index =
                  <<paths[r].tokenized, paths[r].smil, paths[r].audio>>]

SaveXml(r) ==
    /\ pc[r] = "save_xml"
    /\ Export(r, "save_xml", <<<<"tokenized", paths[r].tokenized>>>>, "copy")
    /\ UNCHANGED refs

\* smil = make_smil(names of the tokenized text and the audio copy, results);
\* shutil.copy(audiofile, audio_path)
CopyAudio(r) ==
    /\ pc[r] = "copy"
    /\ Export(r, "copy", <<<<"audio", paths[r].audio>>>>, "save_smil")
    /\ refs' = [refs EXCEPT ![r].smil = <<paths[r].tokenized, paths[r].audio>>]

SaveSmil(r) ==
    /\ pc[r] = "save_smil"
    /\ Export(r, "save_smil", <<<<"smil", paths[r].smil>>>>, "exit")
    /\ UNCHANGED refs

\* the handler returns: status 0
Return(r) ==
    /\ pc[r] = "exit"
    /\ pc' = [pc EXCEPT ![r] = "done"]
    /\ exit' = [exit EXCEPT ![r] = "ok"]
    /\ UNCHANGED <<kwargs, textfile, config, log, checked, written, created, removed,
                   paths, refs, configErr, target, fs, target0, fs0, writable, cmdvars>>

NextAlign ==
    \/ \E r \in Runs : LoadConfig(r)
    \/ \E r \in Runs : DirCheck(r)
    \/ \E r \in Runs : MkDir(r)
    \/ \E r \in Runs : Probe(r)
    \/ \E r \in Runs : TempDir(r)
    \/ \E r \in Runs : Normalize(r)
    \/ \E r \in Runs : CheckTokenized(r)
    \/ \E r \in Runs : CheckSmil(r)
    \/ \E r \in Runs : CheckAudio(r)
    \/ \E r \in Runs : AlignAudio(r)
    \/ \E r \in Runs : ExportTextGrid(r)
    \/ \E r \in Runs : ExportCaptions(r)
    \/ \E r \in Runs : ExportHtml(r)
    \/ \E r \in Runs : SaveIndex(r)
    \/ \E r \in Runs : SaveXml(r)
    \/ \E r \in Runs : CopyAudio(r)
    \/ \E r \in Runs : SaveSmil(r)
    \/ \E r \in Runs : Return(r)

(***************************************************************************)
(* Two align runs started on one output directory that does not exist yet, *)
(* neither with force-overwrite; their steps interleave freely.            *)
(***************************************************************************)
ConcKwargs ==
    {k \in Kwargs :
        /\ ~k.force_overwrite
        /\ k.config = NoConfig
        /\ k.audiofile = <<"story", ".wav">>
        /\ k.text_grid = k.html /\ k.closed_captioning = k.html
        /\ k.output_xhtml = k.html}

InitConc ==
    /\ kwargs \in [Runs -> ConcKwargs]
    /\ kwargs[1].output_base = kwargs[2].output_base
    /\ textfile = [r \in Runs |-> <<"story", ".xml">>]
    /\ target0 = "absent"
    /\ writable = TRUE
    /\ fs0 = EmptyDir(kwargs[1].output_base)
    /\ target = target0
    /\ fs = fs0
    /\ InitRuns(Runs)
    /\ InitCmdIdle

Next == NextAlign

Spec == Init /\ [][Next]_vars

SpecConc == InitConc /\ [][Next]_vars

(***************************************************************************)
(* prepare and tokenize                                                    *)
(***************************************************************************)
\* at most this many files exist beforehand besides the input file
MaxExisting == 1

Stdin == <<"<stdin>">>       \* the .name of the stream click opens for "-"
Dash == <<"-">>
NoArg == <<>>                \* the optional argument left out (default "")

InputNames == {Stdin, <<"a", ".txt">>, <<"a", ".xml">>, <<"a">>}
OutputArgs == {NoArg, Dash, <<"b">>, <<"b", ".xml">>, <<"a", ".xml">>}

Cmds ==
    [name : {"prepare", "tokenize"}, input : InputNames, output : OutputArgs,
     force_overwrite : BOOLEAN, wellformed : BOOLEAN]

\* name.endswith(suffix), name[:-len(suffix)]
EndsWith(name, suffix) == Len(name) > 1 /\ Last(name) = suffix
DropLast(name) == SubSeq(name, 1, Len(name) - 1)

\* lines 336-347: out_file before the branch on "-"
PrepareDefault(c) ==
    IF c.output # NoArg THEN c.output
    ELSE IF c.input = Stdin THEN Dash
    ELSE Append(IF EndsWith(c.input, ".txt") THEN DropLast(c.input) ELSE c.input,
                ".xml")

\* lines 356-357
WithXml(name) == IF EndsWith(name, ".xml") THEN name ELSE Append(name, ".xml")

\* lines 402-416: output_tok_path
TokenizePath(c) ==
    IF c.output = NoArg
    THEN IF c.input = Stdin THEN Dash
         ELSE (IF EndsWith(c.input, ".xml") THEN DropLast(c.input) ELSE c.input)
              \o <<".tokenized", ".xml">>
    ELSE IF ~EndsWith(c.output, ".xml") /\ c.output # Dash
         THEN Append(c.output, ".xml")
         ELSE c.output

CmdNames ==
    (InputNames \ {Stdin}) \cup {Dash}
    \cup {WithXml(PrepareDefault(c)) : c \in Cmds}
    \cup {TokenizePath(c) : c \in Cmds}
    \cup {PrepareDefault(c) : c \in Cmds}

InitAlignIdle ==
    /\ \E k \in ConcKwargs : kwargs = [r \in Runs |-> k]
    /\ kwargs[1].output_base = <<"work", "out">>
    /\ ~kwargs[1].save_temps /\ ~kwargs[1].text_input /\ ~kwargs[1].html
    /\ textfile = [r \in Runs |-> <<"story", ".xml">>]
    /\ target0 = "absent"
    /\ writable = TRUE
    /\ fs0 = EmptyDir(kwargs[1].output_base)
    /\ target = target0
    /\ fs = fs0
    /\ InitRuns({})

InitCmd ==
    /\ cmd \in Cmds
    /\ cpc = "resolve"
    /\ out_file = NoArg
    /\ \E S \in SUBSET CmdNames :
          /\ Cardinality(S) <= MaxExisting
          /\ cfs0 = [n \in CmdNames |->
                        IF n \in S \/ n = cmd.input THEN "old" ELSE "none"]
    /\ cfs = cfs0
    /\ cexit = "running"
    /\ cstdout = FALSE
    /\ InitAlignIdle

CmdFail(err) ==
    /\ cpc' = "done"
    /\ cexit' = err

\* prepare, lines 334-347
PrepareResolve ==
    /\ cmd.name = "prepare" /\ cpc = "resolve"
    /\ out_file' = PrepareDefault(cmd)
    /\ cpc' = "write"
    /\ UNCHANGED <<cmd, cfs, cfs0, cexit, cstdout, alignvars>>

\* defect: the existence check looks at the name before ".xml" is appended
PrepareWriteEarlyCheck ==
    /\ cmd.name = "prepare" /\ cpc = "write"
    /\ IF out_file = Dash
       THEN /\ cstdout' = TRUE
            /\ cpc' = "done" /\ cexit' = "ok"
            /\ UNCHANGED <<out_file, cfs>>
       ELSE /\ out_file' = WithXml(out_file)
            /\ cstdout' = cstdout
            /\ IF cfs[out_file] # "none" /\ ~cmd.force_overwrite
               THEN CmdFail("BadParameter") /\ cfs' = cfs
               ELSE /\ cfs' = [cfs EXCEPT ![out_file'] = "new"]
                    /\ cpc' = "done" /\ cexit' = "ok"
    /\ UNCHANGED <<cmd, cfs0, alignvars>>

\* prepare, lines 349-369: to stdout for "-"; otherwise ".xml" is appended when
\* missing, an existing file is refused without force, and create_input_tei
\* writes the file
PrepareWrite ==
    /\ cmd.name = "prepare" /\ cpc = "write"
    /\ IF out_file = Dash
       THEN /\ cstdout' = TRUE
            /\ cpc' = "done" /\ cexit' = "ok"
            /\ UNCHANGED <<out_file, cfs>>
       ELSE /\ out_file' = WithXml(out_file)
            /\ cstdout' = cstdout
            /\ IF cfs[out_file'] # "none" /\ ~cmd.force_overwrite
               THEN CmdFail("BadParameter") /\ cfs' = cfs
               ELSE /\ cfs' = [cfs EXCEPT ![out_file'] = "new"]
                    /\ cpc' = "done" /\ cexit' = "ok"
    /\ UNCHANGED <<cmd, cfs0, alignvars>>

\* tokenize, lines 402-416
TokenizeResolve ==
    /\ cmd.name = "tokenize" /\ cpc = "resolve"
    /\ out_file' = TokenizePath(cmd)
    /\ cpc' = "check"
    /\ UNCHANGED <<cmd, cfs, cfs0, cexit, cstdout, alignvars>>

\* tokenize, lines 418-421
TokenizeCheck ==
    /\ cmd.name = "tokenize" /\ cpc = "check"
    /\ IF cfs[out_file] # "none" /\ ~cmd.force_overwrite
       THEN CmdFail("BadParameter")
       ELSE cpc' = "parse" /\ cexit' = cexit
    /\ UNCHANGED <<cmd, out_file, cfs, cfs0, cstdout, alignvars>>

\* tokenize, lines 423-431
TokenizeParse ==
    /\ cmd.name = "tokenize" /\ cpc = "parse"
    /\ IF cmd.wellformed
       THEN cpc' = "write" /\ cexit' = cexit
       ELSE CmdFail("BadParameter")
    /\ UNCHANGED <<cmd, out_file, cfs, cfs0, cstdout, alignvars>>

\* tokenize, lines 433-437
TokenizeWrite ==
    /\ cmd.name = "tokenize" /\ cpc = "write"
    /\ IF out_file = Dash
       THEN cstdout' = TRUE /\ cfs' = cfs
       ELSE cstdout' = cstdout /\ cfs' = [cfs EXCEPT ![out_file] = "new"]
    /\ cpc' = "done" /\ cexit' = "ok"
    /\ UNCHANGED <<cmd, out_file, cfs0, alignvars>>

NextCmd ==
    \/ PrepareResolve
    \/ PrepareWrite
    \/ TokenizeResolve
    \/ TokenizeCheck
    \/ TokenizeParse
    \/ TokenizeWrite

SpecCmd == InitCmd /\ [][NextCmd]_vars

(***************************************************************************)
(* Vocabulary of the properties                                            *)
(***************************************************************************)
Done(r) == pc[r] = "done"
Has(r, label) == \E i \in DOMAIN log[r] : log[r][i] = label
Before(r, a, b) == \E i, j \in DOMAIN log[r] : i < j /\ log[r][i] = a /\ log[r][j] = b
FailedAt(r, label) == Done(r) /\ exit[r] # "ok" /\ log[r] # <<>> /\ Last(log[r]) = label
Failed(r) == Done(r) /\ exit[r] \notin {"running", "ok"}

\* nothing in or at the output directory differs from the start, and the run
\* has created, written and removed nothing
Untouched(r) ==
    /\ fs = fs0
    /\ target = target0
    /\ written[r] = {}
    /\ created[r] = {}
    /\ removed[r] = {}

\* align_audio has been called (and has returned or raised)
AlignerCalled(r) == Has(r, "align") \/ Has(r, "align_error")

\* the run has gone beyond the check or creation of the output directory
PastDirCheck(r) == Has(r, "probe")

Active == {r \in Runs : pc[r] # "off"}

(***************************************************************************)
(* C1                                                                      *)
(***************************************************************************)
Protected(r) ==
    target0 # "absent" /\ (~kwargs[r].force_overwrite \/ target0 # "dir")

PassedOnlyIfAllowed(r) ==
    PastDirCheck(r) =>
        \/ target0 = "absent" /\ "output_dir" \in created[r]
        \/ target0 = "dir" /\ kwargs[r].force_overwrite

\* C1 as stated: when the target exists and overwrite is not authorized, or the
\* target is not a directory, the run ends with a path-conflict error and the
\* filesystem is as it was; the run gets past the directory check only if the
\* target was absent and is created, or was a directory with overwrite authorized.
ClaimC1 ==
    \A r \in Active :
        /\ Protected(r) => Untouched(r) /\ (Done(r) => exit[r] = "PathConflict")
        /\ PassedOnlyIfAllowed(r)

ConfigRejected(r) == kwargs[r].config # NoConfig /\ ~EndsWithJson(kwargs[r].config)

\* C1 amended: as ClaimC1, but a configuration file whose name does not end in
\* "json" is rejected first, with the configuration parameter error; the run still
\* fails before anything is created, deleted or modified.
TheoremC1 ==
    \A r \in Active :
        /\ Protected(r) =>
              /\ Untouched(r)
              /\ Done(r) => exit[r] = IF ConfigRejected(r) THEN "ConfigError"
                                      ELSE "PathConflict"
        /\ PassedOnlyIfAllowed(r)

WitnessC1 ==
    /\ Done(1) /\ target0 = "dir" /\ ~kwargs[1].force_overwrite
    /\ fs0 = FullBundle(kwargs[1].output_base)
    /\ exit[1] = "PathConflict" /\ Untouched(1)

(***************************************************************************)
(* C2                                                                      *)
(***************************************************************************)
ExpectedArtifacts(r) ==
    {"tokenized", "smil", "audio", "index"}
    \cup (IF kwargs[r].text_grid THEN {"TextGrid", "eaf"} ELSE {})
    \cup (IF kwargs[r].closed_captioning
          THEN {"sentences.vtt", "sentences.srt", "words.vtt", "words.srt"} ELSE {})
    \cup (IF kwargs[r].html THEN {"html"} ELSE {})

\* where the run is to write artifact a, given the extension x of the text it aligns
ArtifactName(r, a, x) ==
    IF a = "index" THEN IndexName
    ELSE Cat(<<Basename(kwargs[r].output_base)>>,
             CASE a = "tokenized" -> IF kwargs[r].output_xhtml THEN ".xhtml" ELSE x
               [] a = "audio" -> SplitExt(kwargs[r].audiofile)
               [] a = "smil" -> ".smil"
               [] a = "TextGrid" -> ".TextGrid"
               [] a = "eaf" -> ".eaf"
               [] a = "sentences.vtt" -> "_sentences.vtt"
               [] a = "sentences.srt" -> "_sentences.srt"
               [] a = "words.vtt" -> "_words.vtt"
               [] a = "words.srt" -> "_words.srt"
               [] a = "html" -> ".html")

ExpectedNames(r) ==
    {ArtifactName(r, a, SplitExt(textfile[r])) : a \in ExpectedArtifacts(r)}

\* some path the run is expected to write exists before the run
PreExists(r) ==
    \E a \in ExpectedArtifacts(r), x \in TextExts :
        /\ ~kwargs[r].text_input => x = SplitExt(textfile[r])
        /\ Exists(fs0, ArtifactName(r, a, x))

AbortsBeforeWrites(r) ==
    (target0 = "dir" /\ PreExists(r) /\ ~kwargs[r].force_overwrite) =>
        Untouched(r) /\ (Done(r) => Failed(r))

\* C2 as stated: every output path the run is expected to write is checked for
\* pre-existence before the aligner is called, and if one of them exists already
\* while overwrite is not authorized the run aborts before any write.
ClaimC2 ==
    \A r \in Active :
        /\ AlignerCalled(r) => ExpectedNames(r) \subseteq checked[r]
        /\ AbortsBeforeWrites(r)

\* C2 amended: the paths checked one by one are exactly those of the tokenized
\* text, the synchronization file and the audio copy (not the index page, not the
\* optional artifacts); still, if any expected output path exists before the run
\* while overwrite is not authorized, the run aborts before any write.
TheoremC2 ==
    \A r \in Active :
        /\ AlignerCalled(r) =>
              checked[r] = {ArtifactName(r, a, SplitExt(textfile[r])) :
                               a \in {"tokenized", "smil", "audio"}}
        /\ AbortsBeforeWrites(r)

WitnessC2 ==
    /\ Done(1) /\ ~kwargs[1].force_overwrite /\ kwargs[1].text_grid
    /\ Exists(fs0, ArtifactName(1, "TextGrid", "")) /\ Exists(fs0, IndexName)
    /\ Failed(1) /\ Untouched(1)

(***************************************************************************)
(* C3                                                                      *)
(***************************************************************************)
WrittenArtifacts(r) == {w[1] : w \in written[r]}

\* C3: a run ends with status 0 only if it wrote exactly the requested artifacts
\* (tokenized text, smil, audio copy, index page, and the TextGrid/eaf pair, the
\* four caption files and the web-component page exactly when their toggle is
\* set), and then each of their paths holds what this run wrote there.
TheoremC3 ==
    \A r \in Active :
        exit[r] = "ok" =>
            /\ WrittenArtifacts(r) = ExpectedArtifacts(r)
            /\ \A a \in ExpectedArtifacts(r) :
                  LET e == fs[ArtifactName(r, a, SplitExt(textfile[r]))] IN
                  e.kind = "file" /\ e.by = r /\ e.what = a

WitnessC3 ==
    /\ exit[1] = "ok" /\ kwargs[1].force_overwrite
    /\ fs0 = FullBundle(kwargs[1].output_base)
    /\ kwargs[1].text_grid /\ kwargs[1].closed_captioning /\ kwargs[1].html
    /\ \A a \in ExpectedArtifacts(1) :
          LET n == ArtifactName(1, a, SplitExt(textfile[1])) IN
          Exists(fs0, n) /\ fs[n].by = 1

(***************************************************************************)
(* C4                                                                      *)
(***************************************************************************)
\* C4: every error is fatal: once a configuration file has failed to parse, a
\* path conflict, an unwritable directory, malformed input or an aligner failure
\* has occurred, no later stage runs (the aligner is not called after a
\* configuration error, nothing is written after an aligner failure) and the
\* run does not end with status 0.
ClaimC4 ==
    \A r \in Active :
        /\ configErr[r] => pc[r] = "done" /\ exit[r] # "ok" /\ ~Has(r, "align")
        /\ Has(r, "align_error") => written[r] = {} /\ Failed(r)
        /\ exit[r] \notin {"running", "ok"} => Done(r)

(***************************************************************************)
(* C5                                                                      *)
(***************************************************************************)
OnlyTempfilesBeside(r) ==
    /\ created[r] \subseteq {"output_dir", "tempfiles"}
    /\ "tempfiles" \in created[r] => kwargs[r].save_temps

TheoremC6 ==
    \A r \in Active :
        kwargs[r].save_temps =>
            /\ ~FailedAt(r, "temp")
            /\ Has(r, "temp") => IsDir(fs, TempName)

WitnessC6 ==
    /\ kwargs[1].save_temps /\ Has(1, "temp")
    /\ fs0[TempName].kind = "file"
    /\ IsDir(fs, TempName) /\ TempName \in removed[1]

(***************************************************************************)
(* C7                                                                      *)
(***************************************************************************)
DirStages == {"dircheck", "probe", "temp"}
PathChecks == {"chk_tok", "chk_smil", "chk_audio"}

AlignerAfterNormalizer(r) ==
    /\ AlignerCalled(r) => Has(r, "norm") \/ Has(r, "skipnorm")
    /\ AlignerCalled(r) => kwargs[r].text_input = Has(r, "norm")

WritesAfterAligner(r) ==
    written[r] # {} => Has(r, "align") /\ ~Has(r, "align_error")

\* C7 as stated: every layout action (directory check or creation, write probe,
\* temp directory and all three output-path checks) is over before the
\* normalizer is called, the normalizer before the aligner, and nothing is
\* written before the aligner has returned.
ClaimC7 ==
    \A r \in Active :
        /\ Has(r, "norm") =>
              \A l \in DirStages \cup PathChecks : Before(r, l, "norm")
        /\ AlignerAfterNormalizer(r)
        /\ WritesAfterAligner(r)

\* C7 amended: the directory check or creation, the write probe and the temp
\* directory are over before the normalizer is called; the three output-path
\* checks run after the normalizer (they need the name of its output) and are
\* over before the aligner is called; the normalizer is over before the aligner,
\* and nothing is written before the aligner has returned.
TheoremC7 ==
    \A r \in Active :
        /\ Has(r, "norm") =>
              /\ \A l \in DirStages : Before(r, l, "norm")
              /\ \A l \in PathChecks : ~Before(r, l, "norm")
        /\ \A a \in {"align", "align_error"} :
              Has(r, a) =>
                 /\ \A l \in DirStages \cup PathChecks : Before(r, l, a)
                 /\ kwargs[r].text_input => Before(r, "norm", "chk_tok")
        /\ AlignerAfterNormalizer(r)
        /\ WritesAfterAligner(r)

WitnessC7 ==
    /\ kwargs[1].text_input /\ exit[1] = "ok"
    /\ Before(1, "norm", "chk_tok") /\ Before(1, "chk_audio", "align")
    /\ written[1] # {}

(***************************************************************************)
(* C9                                                                      *)
(***************************************************************************)
WrittenAs(r, a) == {w[2] : w \in {v \in written[r] : v[1] = a}}

\* C9: after a successful run, whatever the xhtml and plain-text flags, the
\* names handed to the index page, to the web bundle and to the synchronization
\* file for the tokenized text, the synchronization file and the audio copy are
\* the names under which the run wrote those artifacts.
TheoremC9 ==
    \A r \in Active :
        exit[r] = "ok" =>
            /\ WrittenAs(r, "tokenized") = {refs[r].index[1]}
            /\ WrittenAs(r, "smil") = {refs[r].index[2]}
            /\ WrittenAs(r, "audio") = {refs[r].index[3]}
            /\ refs[r].smil = <<refs[r].index[1], refs[r].index[3]>>
            /\ kwargs[r].html => refs[r].html = refs[r].index

WitnessC9 ==
    /\ exit[1] = "ok" /\ kwargs[1].text_input /\ ~kwargs[1].output_xhtml
    /\ kwargs[1].html /\ refs[1].html[1] = <<"out", ".xml">>
    /\ <<"tokenized", <<"out", ".xml">>>> \in written[1]

(***************************************************************************)
(* C8 (SpecConc)                                                           *)
(***************************************************************************)
StoppedAtLayout(r) ==
    /\ ~PastDirCheck(r)
    /\ written[r] = {} /\ created[r] = {} /\ removed[r] = {}
    /\ \A n \in DOMAIN fs : fs[n].by # r

\* C8: of two runs started on the same absent directory without
\* force-overwrite, at most one gets past the directory check and writes into
\* the directory; the other creates and writes nothing and, when it ends, ends
\* with an error.
TheoremC8 ==
    /\ \E r \in Runs : StoppedAtLayout(r) /\ (Done(r) => Failed(r))
    /\ \A r \in Runs : exit[r] = "ok" => \A n \in DOMAIN fs : fs[n].by \in {0, r}

WitnessC8 ==
    /\ Before(1, "dircheck", "mkdir") /\ Before(2, "dircheck", "mkdir")
    /\ exit[1] = "ok" /\ exit[2] = "OSError" /\ FailedAt(2, "mkdir")
    /\ StoppedAtLayout(2)

(***************************************************************************)
(* C10 (SpecCmd)                                                           *)
(***************************************************************************)
CmdDone == cpc = "done"

\* C10: prepare and tokenize resolve the output path (default from the input
\* name, ".xml" appended when missing, "-" for stdout); a file already at the
\* resolved path is never written without force-overwrite, the command then
\* fails with a parameter error; tokenize writes nothing when its input is
\* not well-formed XML.
TheoremC10 ==
    /\ \A n \in CmdNames :
          cfs[n] # cfs0[n] =>
              /\ n = out_file /\ n # Dash /\ EndsWith(n, ".xml")
              /\ cfs0[n] = "none" \/ cmd.force_overwrite
    /\ (CmdDone /\ out_file # Dash /\ cfs0[out_file] # "none" /\ ~cmd.force_overwrite) =>
          cexit = "BadParameter" /\ cfs = cfs0 /\ ~cstdout
    /\ (CmdDone /\ cmd.name = "tokenize" /\ ~cmd.wellformed) =>
          cexit = "BadParameter" /\ cfs = cfs0 /\ ~cstdout
    /\ (CmdDone /\ cexit = "ok") =>
          IF out_file = Dash THEN cstdout /\ cfs = cfs0
          ELSE cfs[out_file] = "new" /\ ~cstdout

WitnessC10 ==
    /\ CmdDone /\ cmd.name = "prepare" /\ cmd.output = <<"b">>
    /\ out_file = <<"b", ".xml">> /\ cfs0[<<"b">>] = "none"
    /\ cfs0[out_file] = "old" /\ ~cmd.force_overwrite
    /\ cexit = "BadParameter" /\ cfs = cfs0
====
